---------------------------- MODULE Spec2Model ----------------------------
(* A model of quaero (src/src/main.rs): the entry classifier, the recursive *)
(* directory walk with exclusion pruning and depth bound, the search-mode   *)
(* deduction and the match dispatch.                                        *)
(*                                                                          *)
(* Strings are sequences of one-character strings; Option values are        *)
(* sequences of length at most one (None == <<>>, Some(x) == <<x>>).        *)
EXTENDS Integers, Sequences, FiniteSets, TLC

(***************************************************************************)
(* Bounds of the model                                                     *)
(***************************************************************************)
\* number of filesystem objects below the start directory
NumEntries == 4
\* largest value given to --depth
MaxDepthArg == 2
\* longest --avoid list
MaxAvoids == 2
\* longest entry name drawn for the extension checks
MaxNameLen == 5
\* longest --extension list
MaxExts == 2

(***************************************************************************)
(* Option                                                                  *)
(***************************************************************************)
None == <<>>
Some(x) == <<x>>
IsSome(o) == Len(o) = 1
Unwrap(o) == o[1]

(***************************************************************************)
(* Program constants                                                       *)
(***************************************************************************)
\* FileModeMask::Executable = 0o111
FileModeMask_Executable == 73
\* std::usize::MAX stands for "no depth limit"; the walk only compares it
\* with 0 and decrements it, so the largest integer of the checker is used.
UsizeMax == 2147483647

\* bitwise and of two naturals
RECURSIVE BitAnd(_, _)
BitAnd(a, b) ==
    IF a = 0 \/ b = 0 THEN 0
    ELSE (IF a % 2 = 1 /\ b % 2 = 1 THEN 1 ELSE 0) + 2 * BitAnd(a \div 2, b \div 2)

(***************************************************************************)
(* The filesystem: objects 0..NumEntries, object 0 is the directory the    *)
(* process was started in (the default start_directory ".").               *)
(***************************************************************************)
Nodes == 0 .. NumEntries
NoNode == -1
Parent(n) == IF n <= 2 THEN 0 ELSE n - 2
StKinds == {"dir", "file", "symlink", "other"}

VARIABLES
    fs,           \* [Nodes -> [kind, mode, target, name]]: the directory tree
    cli,          \* the parsed command line (struct Cli)
    search_mode,  \* Option<SearchMode>: the result of deduce_search_mode
    stack,        \* the activations of walk_directory, innermost last
    visited,      \* the callback's calls in order: [node, entry]
    enumerated,   \* the objects read_dir listed, in call order
    stdout,       \* the lines printed so far
    result,       \* None while running, else Some(outcome of main)
    failure,      \* the first failed filesystem call and what had happened by then
    classified    \* the last call of FileType::try_from and its outcome

vars == <<fs, cli, search_mode, stack, visited, enumerated, stdout, result,
          failure, classified>>

\* slots of the tree that hold no object have kind "none"
Exists(n) == fs[n].kind # "none"

Children(d) == {n \in Nodes \ {0} : Parent(n) = d /\ Exists(n)}

\* number of directory levels between the start directory and an object
RECURSIVE Level(_)
Level(n) == IF n = 0 THEN 0 ELSE 1 + Level(Parent(n))

\* the object a symbolic link chain ends at; NoNode when it dangles or loops
RECURSIVE Follow(_, _)
Follow(n, fuel) ==
    IF n = NoNode THEN NoNode
    ELSE IF ~Exists(n) THEN NoNode
    ELSE IF fs[n].kind # "symlink" THEN n
    ELSE IF fuel = 0 THEN NoNode
    ELSE Follow(fs[n].target, fuel - 1)

Resolved(n) == Follow(n, NumEntries + 1)

(***************************************************************************)
(* Paths                                                                   *)
(***************************************************************************)
\* the components of a path string (Path::components): split at "/"
RECURSIVE SplitAt(_, _, _)
SplitAt(s, sep, cur) ==
    IF s = <<>> THEN (IF cur = <<>> THEN <<>> ELSE <<cur>>)
    ELSE IF Head(s) = sep
         THEN (IF cur = <<>> THEN <<>> ELSE <<cur>>) \o SplitAt(Tail(s), sep, <<>>)
         ELSE SplitAt(Tail(s), sep, Append(cur, Head(s)))

Components(path) == SplitAt(path, "/", <<>>)

\* Path::join of a directory path and a file name
Join(dir, name) == dir \o <<"/">> \o name

\* the directory entry of directory object d called name, NoNode if none
Lookup(d, name) ==
    IF d = NoNode THEN NoNode
    ELSE IF fs[d].kind # "dir" THEN NoNode
    ELSE IF \E c \in Children(d) : fs[c].name = name
         THEN CHOOSE c \in Children(d) : fs[c].name = name
         ELSE NoNode

\* path resolution by the operating system, following every symbolic link;
\* relative paths start at object 0, "." stays in place
ResolveFrom[cur \in Nodes \cup {NoNode}, comps \in Seq(Seq(STRING))] ==
    IF comps = <<>> THEN cur
    ELSE IF cur = NoNode THEN NoNode
    ELSE IF Head(comps) = <<".">> THEN ResolveFrom[cur, Tail(comps)]
    ELSE ResolveFrom[Resolved(Lookup(cur, Head(comps))), Tail(comps)]

Resolve(path) == ResolveFrom[0, Components(path)]

\* the absolute, symlink-free components of an existing non-link object
RECURSIVE AbsComponents(_)
AbsComponents(n) ==
    IF n = 0 THEN <<fs[0].name>>
    ELSE Append(AbsComponents(Parent(n)), fs[n].name)

\* std::fs::canonicalize: None stands for the io::Error
Canonicalize(path) ==
    LET n == Resolve(path)
    IN  IF n = NoNode THEN None ELSE Some(AbsComponents(n))

\* a variant that compares for equality only
StartsWithEqual(lhs, rhs) == lhs = rhs

\* a variant with the arguments exchanged
StartsWithSwapped(lhs, rhs) ==
    /\ Len(lhs) <= Len(rhs)
    /\ SubSeq(rhs, 1, Len(lhs)) = lhs

\* Path::starts_with: whole components, not characters
StartsWith(lhs, rhs) ==
    /\ Len(rhs) <= Len(lhs)
    /\ SubSeq(lhs, 1, Len(rhs)) = rhs

\* the path DirEntry::path gives for object n listed from directory path dir
EntryPath(dir, n) == Join(dir, fs[n].name)

\* the path of object n as the walk from "." spells it
RECURSIVE WalkPath(_)
WalkPath(n) ==
    IF n = 0 THEN <<".">>
    ELSE Join(WalkPath(Parent(n)), fs[n].name)


(***************************************************************************)
(* Entry Classifier: impl TryFrom<&DirEntry> for FileType                  *)
(***************************************************************************)
FileTypes == {"Directory", "RegularFile", "SymLink", "Executable"}

\* a variant that takes the type of what a link leads to (fs::metadata)
TypeBitsFollowingLinks(n) ==
    LET t == IF Resolved(n) = NoNode THEN n ELSE Resolved(n)
    IN  <<fs[t].kind = "dir", fs[t].kind = "file", fs[t].kind = "symlink">>

\* DirEntry::file_type reads the entry's own type, it follows no link:
\* <<is_dir, is_file, is_symlink>>
TypeBits(n) ==
    <<fs[n].kind = "dir", fs[n].kind = "file", fs[n].kind = "symlink">>

\* the match on (is_dir, is_file, is_symlink); "unreachable" is the last arm
MatchTypeBits(bits) ==
    CASE bits = <<TRUE, FALSE, FALSE>> -> "Directory"
      [] bits = <<FALSE, TRUE, FALSE>> -> "RegularFile"
      [] bits = <<FALSE, FALSE, TRUE>> -> "SymLink"
      [] OTHER -> "unreachable"

\* permissions.mode() & FileModeMask::Executable as u32 != 0
HasExecuteBit(mode) == BitAnd(mode, FileModeMask_Executable) # 0

\* FileType::try_from; fault names the query that fails, if any
Faults == {"none", "entry", "file_type", "metadata"}
FileTypeTryFrom(n, fault) ==
    IF fault = "file_type" THEN [tag |-> "Err", val |-> "io"]
    ELSE LET file_type == MatchTypeBits(TypeBits(n))
         IN  IF file_type = "unreachable" THEN [tag |-> "Panic", val |-> "unreachable"]
             ELSE IF fault = "metadata" THEN [tag |-> "Err", val |-> "io"]
             ELSE IF file_type # "Directory" /\ HasExecuteBit(fs[n].mode)
                  THEN [tag |-> "Ok", val |-> "Executable"]
                  ELSE [tag |-> "Ok", val |-> file_type]

\* ParsedEntry::try_from for the entry of object n listed from directory dir;
\* names are UTF-8 here, so both into_string().unwrap() succeed
ParsedEntryTryFrom(dir, n, fault) ==
    LET ft == FileTypeTryFrom(n, fault)
    IN  IF ft.tag # "Ok" THEN ft
        ELSE [tag |-> "Ok",
              val |-> [file_type |-> ft.val,
                       name |-> fs[n].name,
                       path |-> EntryPath(dir, n)]]

(***************************************************************************)
(* Match Dispatcher                                                        *)
(***************************************************************************)
\* the index of the last occurrence of c in s, 0 if none
RECURSIVE LastIndexOf(_, _)
LastIndexOf(s, c) ==
    IF s = <<>> THEN 0
    ELSE IF s[Len(s)] = c THEN Len(s)
    ELSE LastIndexOf(SubSeq(s, 1, Len(s) - 1), c)

\* Path::file_name: the last component, unless it is ".."
FileName(path) ==
    LET comps == Components(path)
    IN  IF comps = <<>> THEN None
        ELSE IF comps[Len(comps)] = <<".", ".">> THEN None
        ELSE Some(comps[Len(comps)])

\* the index of the first occurrence of c in s, 0 if none
RECURSIVE FirstIndexOf(_, _, _)
FirstIndexOf(s, c, i) ==
    IF i > Len(s) THEN 0
    ELSE IF s[i] = c THEN i
    ELSE FirstIndexOf(s, c, i + 1)

\* a variant that splits the name at its first dot (splitn for rsplitn)
ExtensionOfNameFirstDot(file) ==
    LET dot == FirstIndexOf(file, ".", 1)
    IN  IF file = <<".", ".">> THEN None
        ELSE IF dot = 0 THEN None
        ELSE IF dot = 1 THEN None
        ELSE Some(SubSeq(file, dot + 1, Len(file)))

\* std's rsplit_file_at_dot followed by before.and(after)
ExtensionOfName(file) ==
    LET dot == LastIndexOf(file, ".")
    IN  IF file = <<".", ".">> THEN None
        ELSE IF dot = 0 THEN None
        ELSE IF dot = 1 THEN None
        ELSE Some(SubSeq(file, dot + 1, Len(file)))

\* extension_from_path: Path::new(path).extension()
extension_from_path(path) ==
    LET file == FileName(path)
    IN  IF IsSome(file) THEN ExtensionOfName(Unwrap(file)) ELSE None

\* Regex::is_match for a pattern of literal characters: it occurs somewhere
is_match(regex, text) ==
    \E i \in 1 .. (Len(text) - Len(regex) + 1) :
        SubSeq(text, i, i + Len(regex) - 1) = regex

\* the lines each matcher prints for one entry
match_target(target, entry) ==
    IF entry.name = target THEN <<entry.path>> ELSE <<>>

match_type(target_type, entry) ==
    IF entry.file_type = target_type THEN <<entry.path>> ELSE <<>>

RECURSIVE match_extensions_from(_, _, _)
match_extensions_from(extensions, target_extension, i) ==
    IF i > Len(extensions) THEN <<>>
    ELSE (IF extensions[i] = target_extension THEN <<i>> ELSE <<>>)
         \o match_extensions_from(extensions, target_extension, i + 1)

match_extensions(extensions, entry) ==
    LET target_extension == extension_from_path(entry.path)
    IN  IF IsSome(target_extension)
        THEN [k \in 1 .. Len(match_extensions_from(extensions, Unwrap(target_extension), 1))
                 |-> entry.path]
        ELSE <<>>

match_regex(regex, entry) ==
    IF is_match(regex, entry.path) THEN <<entry.path>> ELSE <<>>

match_target_and_type(target, target_type, entry) ==
    IF entry.name = target /\ entry.file_type = target_type
    THEN <<entry.path>> ELSE <<>>

\* deduce_search_mode: the first arm of the match that fits, in source order
deduce_search_mode(target, target_type, extensions, regex) ==
    IF IsSome(target) /\ ~IsSome(target_type) THEN "Target"
    ELSE IF ~IsSome(target) /\ IsSome(target_type) THEN "Type"
    ELSE IF IsSome(extensions) THEN "Extension"
    ELSE IF IsSome(regex) THEN "Regex"
    ELSE IF IsSome(target) /\ IsSome(target_type) THEN "TargetAndType"
    ELSE "Err"

\* the closure main passes to walk_directory
Callback(mode, entry) ==
    CASE mode = "Target" -> match_target(Unwrap(cli.target), entry)
      [] mode = "Type" -> match_type(Unwrap(cli.file_type), entry)
      [] mode = "Extension" -> match_extensions(Unwrap(cli.extensions), entry)
      [] mode = "Regex" -> match_regex(Unwrap(cli.regex), entry)
      [] mode = "TargetAndType" ->
            match_target_and_type(Unwrap(cli.target), Unwrap(cli.file_type), entry)


(***************************************************************************)
(* Tree Walker: walk_directory, one activation per stack frame             *)
(***************************************************************************)
Frame(directory, depth) ==
    [directory |-> directory, depth |-> depth, iter |-> {}, node |-> NoNode,
     entry |-> None, pc |-> "enter"]

Top == stack[Len(stack)]
Pop(stk) == SubSeq(stk, 1, Len(stk) - 1)
SetTop(stk, f) == [stk EXCEPT ![Len(stk)] = f]

Running == result = None /\ stack # <<>>

\* a variant in which the caller drops the error of the recursive call
AfterReturnSwallowed(stk, res) ==
    IF Pop(stk) = <<>>
    THEN [stack |-> <<>>, result |-> Some(res)]
    ELSE [stack |-> Pop(stk), result |-> None]

\* an activation returns res ("Ok" or an error): the caller's `?` hands an
\* error on at once, level after level, up to main
AfterReturn(stk, res) ==
    IF res = "Ok"
    THEN [stack |-> Pop(stk),
          result |-> IF Pop(stk) = <<>> THEN Some("Ok") ELSE None]
    ELSE [stack |-> <<>>, result |-> Some(res)]

\* a variant that recurses before it calls back
LoopBodyRecurseFirst == <<"recurse", "visit">>

\* the statements of the loop body after the exclusion check, in order
LoopBody == <<"visit", "recurse">>

FirstStep == LoopBody[1]
StepAfter(pc) == IF pc = LoopBody[1] THEN LoopBody[2] ELSE "loop"

\* one statement of the body is done; the entry is dropped with the last
Advance(f) ==
    IF StepAfter(f.pc) = "loop"
    THEN [f EXCEPT !.pc = "loop", !.node = NoNode, !.entry = None]
    ELSE [f EXCEPT !.pc = StepAfter(f.pc)]

\* a variant that hands the depth on unchanged
ChildDepthUnchanged(depth) == depth

\* the depth handed to the recursive call
ChildDepth(depth) == depth - 1

\* the exclusion loop for one entry: "skip" (continue 'outer), "keep", or
\* "err" when a canonicalize fails
RECURSIVE CheckExcludes(_, _, _)
CheckExcludes(path, excludes, i) ==
    IF i > Len(excludes) THEN "keep"
    ELSE LET lhs == Canonicalize(path)
             rhs == Canonicalize(excludes[i])
         IN  IF ~IsSome(lhs) THEN "err"
             ELSE IF ~IsSome(rhs) THEN "err"
             ELSE IF StartsWith(Unwrap(lhs), Unwrap(rhs)) THEN "skip"
             ELSE CheckExcludes(path, excludes, i + 1)

Excluded(path) ==
    IF IsSome(cli.avoids) THEN CheckExcludes(path, Unwrap(cli.avoids), 1)
    ELSE "keep"

\* a filesystem call fails in the innermost activation
RaiseIo(op) ==
    /\ stack' = AfterReturn(stack, "IoError").stack
    /\ result' = AfterReturn(stack, "IoError").result
    /\ failure' = IF IsSome(failure) THEN failure
                  ELSE Some([op |-> op, level |-> Len(stack),
                             visited |-> Len(visited), printed |-> stdout])

\* the innermost activation returns Ok(())
ReturnOk ==
    /\ stack' = AfterReturn(stack, "Ok").stack
    /\ result' = AfterReturn(stack, "Ok").result
    /\ UNCHANGED failure

\* main up to the call of walk_directory
Main ==
    /\ result = None
    /\ stack = <<>>
    /\ search_mode = None
    /\ LET mode == deduce_search_mode(cli.target, cli.file_type,
                                      cli.extensions, cli.regex)
           depth == IF IsSome(cli.depth) THEN Unwrap(cli.depth) ELSE UsizeMax
       IN  IF mode = "Err"
           THEN /\ result' = Some("ConfigError")
                /\ UNCHANGED <<search_mode, stack>>
           ELSE /\ search_mode' = Some(mode)
                /\ stack' = <<Frame(cli.start_directory, depth)>>
                /\ UNCHANGED result
    /\ UNCHANGED <<fs, cli, visited, enumerated, stdout, failure, classified>>

\* walk_directory from its entry to the start of the loop: the depth test and
\* read_dir, which fails when the path is no readable directory
Enter ==
    /\ Running
    /\ Top.pc = "enter"
    /\ \E fault \in {"none", "read_dir"} :
        LET d == Resolve(Top.directory)
        IN  IF Top.depth <= 0
            THEN /\ ReturnOk
                 /\ UNCHANGED enumerated
            ELSE IF fault = "read_dir" \/ d = NoNode
            THEN /\ RaiseIo("read_dir")
                 /\ UNCHANGED enumerated
            ELSE IF fs[d].kind # "dir"
            THEN /\ RaiseIo("read_dir")
                 /\ UNCHANGED enumerated
            ELSE /\ stack' = SetTop(stack, [Top EXCEPT !.iter = Children(d), !.pc = "loop"])
                 /\ enumerated' = Append(enumerated, d)
                 /\ UNCHANGED <<result, failure>>
    /\ UNCHANGED <<fs, cli, search_mode, visited, stdout, classified>>

\* the head of the loop: the iterator's next entry, in any order, and
\* ParsedEntry::try_from of it; the function returns when none is left
NextEntry ==
    /\ Running
    /\ Top.pc = "loop"
    /\ IF Top.iter = {}
       THEN /\ ReturnOk
            /\ UNCHANGED classified
       ELSE \E n \in Top.iter, fault \in Faults :
            LET parsed == ParsedEntryTryFrom(Top.directory, n, fault)
            IN  IF fault = "entry"
                THEN /\ RaiseIo("entry")
                     /\ UNCHANGED classified
                ELSE /\ classified' = Some([node |-> n, fault |-> fault,
                                            outcome |-> FileTypeTryFrom(n, fault)])
                     /\ IF parsed.tag = "Err" THEN RaiseIo(fault)
                        ELSE IF parsed.tag = "Panic"
                        THEN /\ stack' = <<>>
                             /\ result' = Some("Panic")
                             /\ UNCHANGED failure
                        ELSE /\ stack' = SetTop(stack,
                                    [Top EXCEPT !.iter = Top.iter \ {n},
                                                !.node = n,
                                                !.entry = Some(parsed.val),
                                                !.pc = "exclude"])
                             /\ UNCHANGED <<result, failure>>
    /\ UNCHANGED <<fs, cli, search_mode, visited, enumerated, stdout>>

\* the exclusion loop over avoids for the current entry
Exclude ==
    /\ Running
    /\ Top.pc = "exclude"
    /\ LET verdict == Excluded(Unwrap(Top.entry).path)
       IN  IF verdict = "err" THEN RaiseIo("canonicalize")
           ELSE /\ stack' = SetTop(stack,
                       IF verdict = "skip"
                       THEN [Top EXCEPT !.node = NoNode, !.entry = None, !.pc = "loop"]
                       ELSE [Top EXCEPT !.pc = FirstStep])
                /\ UNCHANGED <<result, failure>>
    /\ UNCHANGED <<fs, cli, search_mode, visited, enumerated, stdout, classified>>

\* callback(&entry): the dispatcher prints the entry's path when it matches
Visit ==
    /\ Running
    /\ Top.pc = "visit"
    /\ visited' = Append(visited, [node |-> Top.node, entry |-> Unwrap(Top.entry)])
    /\ stdout' = stdout \o Callback(Unwrap(search_mode), Unwrap(Top.entry))
    /\ stack' = SetTop(stack, Advance(Top))
    /\ UNCHANGED <<fs, cli, search_mode, enumerated, result, failure, classified>>

\* if the entry is a Directory, the recursive call with the depth reduced
Recurse ==
    /\ Running
    /\ Top.pc = "recurse"
    /\ LET entry == Unwrap(Top.entry)
           caller == SetTop(stack, Advance(Top))
       IN  stack' = IF entry.file_type = "Directory"
                    THEN Append(caller, Frame(entry.path, ChildDepth(Top.depth)))
                    ELSE caller
    /\ UNCHANGED <<fs, cli, search_mode, visited, enumerated, stdout, result,
                   failure, classified>>

Next == Main \/ Enter \/ NextEntry \/ Exclude \/ Visit \/ Recurse

(***************************************************************************)
(* Initial states: a directory tree and a command line                     *)
(***************************************************************************)
NameLetters == <<"a", "b", "c", "d">>
DefaultName(n) == IF n = 0 THEN <<"w">> ELSE <<NameLetters[((n - 1) % 4) + 1]>>

RECURSIVE DefaultPath(_)
DefaultPath(n) ==
    IF n = 0 THEN <<".">> ELSE Join(DefaultPath(Parent(n)), DefaultName(n))

Obj(kind, mode, target) == [kind |-> kind, mode |-> mode, target |-> target]
NoObj == Obj("none", 0, NoNode)
StartDir == Obj("dir", 493, NoNode)

\* a tree is well formed when exactly the slots under a directory are filled
WellFormed(f) ==
    /\ f[0] = StartDir
    /\ \A n \in Nodes \ {0} : (f[n] = NoObj) <=> (f[Parent(n)].kind # "dir")

WithNames(f) ==
    [n \in Nodes |-> [kind |-> f[n].kind, mode |-> f[n].mode,
                      target |-> f[n].target, name |-> DefaultName(n)]]

\* the objects the walk checks draw from: mode 0o755 or 0o644, links as the
\* kernel reports them (0o777) to the start directory or into its first chain
WalkObjects ==
    {Obj("dir", 493, NoNode), Obj("file", 420, NoNode), Obj("file", 493, NoNode),
     Obj("other", 420, NoNode), NoObj}
    \cup {Obj("symlink", 511, t) : t \in {0, 1, 3}}

WalkTrees == {WithNames(f) : f \in {g \in [Nodes -> WalkObjects] : WellFormed(g)}}

DepthArgs == {None} \cup {Some(d) : d \in 0 .. MaxDepthArg}

AvoidPaths == {DefaultPath(0), DefaultPath(1), DefaultPath(3), <<".", "/", "x">>}
AvoidLists == UNION {[1 .. k -> AvoidPaths] : k \in 0 .. MaxAvoids}
AvoidArgs == {None} \cup {Some(l) : l \in AvoidLists}

Cli(target, file_type, avoids, extensions, depth, regex) ==
    [target |-> target, start_directory |-> <<".">>, file_type |-> file_type,
     avoids |-> avoids, extensions |-> extensions, depth |-> depth,
     regex |-> regex]

InitProgram ==
    /\ search_mode = None
    /\ stack = <<>>
    /\ visited = <<>>
    /\ enumerated = <<>>
    /\ stdout = <<>>
    /\ result = None
    /\ failure = None
    /\ classified = None

\* the walk: every tree, depth and exclusion list, searching by kind
Init ==
    /\ fs \in WalkTrees
    /\ \E depth \in DepthArgs, avoids \in AvoidArgs :
          cli = Cli(None, Some("Executable"), avoids, None, depth, None)
    /\ InitProgram

Spec == Init /\ [][Next]_vars

\* termination: every tree and depth, among them no depth limit, where only
\* the tree bounds the recursion; the single thread keeps running
InitTermination ==
    /\ fs \in WalkTrees
    /\ \E depth \in DepthArgs :
          cli = Cli(None, Some("Executable"), None, None, depth, None)
    /\ InitProgram

FairSpec == InitTermination /\ [][Next]_vars /\ WF_vars(Next)

(***************************************************************************)
(* The command-line checks: one entry and the options drawn widely over a  *)
(* small tree                                                              *)
(***************************************************************************)
Modes == {420, 493, 8}
Alphabet == {"a", "A", "."}
Strings(maxlen) == UNION {[1 .. k -> Alphabet] : k \in 0 .. maxlen}
EntryNames == Strings(MaxNameLen) \ {<<>>, <<".">>, <<".", ".">>}
ExtStrings == {<<>>, <<"a">>, <<"A">>}
ExtLists == UNION {[1 .. k -> ExtStrings] : k \in 0 .. MaxExts}

\* object 1 as given, with name nm; a directory b holding an executable d
SmallTree(obj1, nm) ==
    [n \in Nodes |->
        IF n = 1
        THEN [kind |-> obj1.kind, mode |-> obj1.mode, target |-> obj1.target,
              name |-> nm]
        ELSE WithNames([m \in Nodes |->
                CASE m = 0 -> StartDir
                  [] m = 2 -> Obj("dir", 493, NoNode)
                  [] m = 3 -> IF obj1.kind = "dir" THEN Obj("file", 420, NoNode) ELSE NoObj
                  [] m = 4 -> Obj("file", 493, NoNode)
                  [] OTHER -> NoObj])[n]]

ClassifyObjects ==
    {Obj(k, m, IF k = "symlink" THEN 0 ELSE NoNode) : k \in StKinds, m \in Modes}

\* every kind and mode of one entry, searched by each kind
InitClassify ==
    /\ \E obj1 \in ClassifyObjects : fs = SmallTree(obj1, DefaultName(1))
    /\ \E kind \in FileTypes : cli = Cli(None, Some(kind), None, None, None, None)

\* every name of one entry against every extension list
InitExtension ==
    /\ \E nm \in EntryNames : fs = SmallTree(Obj("file", 420, NoNode), nm)
    /\ \E exts \in ExtLists : cli = Cli(None, None, None, Some(exts), None, None)

\* every combination of target, kind, extension list and regex
InitMode ==
    /\ fs = SmallTree(Obj("file", 420, NoNode), <<"a", ".", "a">>)
    /\ \E target \in {None, Some(<<"a", ".", "a">>), Some(<<"d">>)},
          kind \in {None} \cup {Some(k) : k \in FileTypes},
          exts \in {None, Some(<<>>), Some(<<<<"a">>>>)},
          regex \in {None, Some(<<"b">>), Some(<<"b", "/">>)} :
          cli = Cli(target, kind, None, exts, None, regex)

InitCli ==
    /\ InitClassify \/ InitExtension \/ InitMode
    /\ InitProgram

SpecCli == InitCli /\ [][Next]_vars

(***************************************************************************)
(* Notions the properties are stated in, independent of the walk           *)
(***************************************************************************)
\* n is m or lies below m in the tree
RECURSIVE IsUnder(_, _)
IsUnder(n, m) ==
    IF n = m THEN TRUE
    ELSE IF n = 0 THEN FALSE
    ELSE IsUnder(Parent(n), m)

VisitedNodes == {visited[i].node : i \in DOMAIN visited}
TimesVisited(n) == Cardinality({i \in DOMAIN visited : visited[i].node = n})

Excludes ==
    IF IsSome(cli.avoids)
    THEN {Unwrap(cli.avoids)[i] : i \in DOMAIN Unwrap(cli.avoids)}
    ELSE {}

\* the canonical path of entry n is equal to or nested under that of some
\* exclusion
UnderExclusion(n) ==
    \E x \in Excludes :
        /\ Resolved(n) # NoNode
        /\ Resolve(x) # NoNode
        /\ IsUnder(Resolved(n), Resolve(x))

DepthLimit == IF IsSome(cli.depth) THEN Unwrap(cli.depth) ELSE UsizeMax

\* the entries the walk is to reach: within the depth bound, and neither
\* the entry nor a directory on the way to it excluded
InScope(n) ==
    /\ n # 0
    /\ Exists(n)
    /\ Level(n) <= DepthLimit
    /\ \A a \in Nodes \ {0} : IsUnder(n, a) => ~UnderExclusion(a)

(***************************************************************************)
(* C1: no entry whose canonical path is equal to or nested under the       *)
(* canonical path of an exclusion is handed to the callback, and no such   *)
(* entry is recursed into (listed by read_dir).                            *)
(***************************************************************************)
ExclusionCorrect ==
    /\ \A i \in DOMAIN visited : ~UnderExclusion(visited[i].node)
    /\ \A j \in 2 .. Len(enumerated) : ~UnderExclusion(enumerated[j])

\* a walk that completed, pruned a link leading into an excluded directory
\* and visited something else
ExclusionWitness ==
    /\ result = Some("Ok")
    /\ visited # <<>>
    /\ \E n \in Nodes \ {0} :
          /\ Exists(n)
          /\ fs[n].kind = "symlink"
          /\ Parent(n) \in VisitedNodes \cup {0}
          /\ UnderExclusion(n)
          /\ ~UnderExclusion(Parent(n))
          /\ Resolved(n) # 0
          /\ n \notin VisitedNodes

(***************************************************************************)
(* C2: with --depth n no entry more than n levels below the start          *)
(* directory is visited; with depth 1 the children of the start directory  *)
(* are visited and nothing below them, with depth 0 nothing is listed or   *)
(* visited.                                                                *)
(***************************************************************************)
DepthBound ==
    /\ \A i \in DOMAIN visited : Level(visited[i].node) <= DepthLimit
    /\ \A j \in DOMAIN enumerated : Level(enumerated[j]) < DepthLimit
    /\ DepthLimit = 0 => visited = <<>> /\ enumerated = <<>>
    /\ (result = Some("Ok") /\ DepthLimit = 1 /\ Excludes = {})
          => VisitedNodes = Children(0)

\* depth 1 over a tree with a second level: the subdirectory was visited
DepthWitness ==
    /\ result = Some("Ok")
    /\ cli.depth = Some(1)
    /\ \E n \in VisitedNodes : fs[n].kind = "dir" /\ Children(n) # {}

(***************************************************************************)
(* C3: when the walk completes without error, every entry in scope (not    *)
(* excluded, within the depth bound, below directories the walk entered)   *)
(* was handed to the callback exactly once, directories included; no entry *)
(* is ever visited twice.                                                  *)
(***************************************************************************)
VisitedExactlyOnce ==
    /\ \A n \in Nodes : TimesVisited(n) <= 1
    /\ result = Some("Ok") =>
          \A n \in Nodes \ {0} : InScope(n) <=> TimesVisited(n) = 1

\* a completed walk with exclusions that visited a directory and its child
VisitedWitness ==
    /\ result = Some("Ok")
    /\ Excludes # {}
    /\ \E n \in VisitedNodes :
          /\ fs[n].kind = "dir"
          /\ Children(n) # {}
          /\ Children(n) \subseteq VisitedNodes
    /\ \E n \in Nodes \ {0} : Exists(n) /\ n \notin VisitedNodes

(***************************************************************************)
(* C4: a directory is handed to the callback before any of its             *)
(* descendants, and before read_dir lists it.                              *)
(***************************************************************************)
PreOrder ==
    /\ \A j \in DOMAIN visited :
          Level(visited[j].node) >= 2 =>
              \E i \in 1 .. (j - 1) : visited[i].node = Parent(visited[j].node)
    /\ \A j \in 2 .. Len(enumerated) : enumerated[j] \in VisitedNodes

\* an entry two levels down has been visited
PreOrderWitness ==
    \E j \in DOMAIN visited : Level(visited[j].node) >= 2

(***************************************************************************)
(* C6: once a filesystem call of the walk has failed, at any depth of the  *)
(* recursion, main has returned that error, nothing was visited since, and *)
(* the lines printed before the failure are the lines printed.             *)
(***************************************************************************)
FailFast ==
    IsSome(failure) =>
        /\ result = Some("IoError")
        /\ stack = <<>>
        /\ Len(visited) = Unwrap(failure).visited
        /\ stdout = Unwrap(failure).printed

\* a failure two activations deep, after a match was printed
FailFastWitness ==
    /\ IsSome(failure)
    /\ Unwrap(failure).level >= 2
    /\ Unwrap(failure).printed # <<>>

(***************************************************************************)
(* C10: the walk terminates on every tree, also with symbolic links to an  *)
(* ancestor: only real directories are listed, each at most once, and main *)
(* eventually returns.                                                     *)
(***************************************************************************)
ListedOnce ==
    /\ \A j \in DOMAIN enumerated : fs[enumerated[j]].kind = "dir"
    /\ \A i, j \in DOMAIN enumerated : enumerated[i] = enumerated[j] => i = j
    /\ \A k \in 2 .. Len(stack) :
          \E n \in Nodes : fs[n].kind = "dir" /\ stack[k].directory = WalkPath(n)

Terminates == []ListedOnce /\ <>(result # None)

\* a completed walk that met a link to the start directory
TerminatesWitness ==
    /\ result = Some("Ok")
    /\ cli.depth = None
    /\ \E n \in VisitedNodes : fs[n].kind = "symlink" /\ Resolved(n) = 0

(***************************************************************************)
(* C5: classification is total: whenever the type and permission queries   *)
(* succeed, FileType::try_from yields one of the four kinds, Directory for *)
(* a directory whatever its mode, Executable for any other entry with an   *)
(* execute bit.  The code panics on an entry that is neither directory,    *)
(* regular file nor symbolic link.                                         *)
(***************************************************************************)
ClassificationTotal ==
    (IsSome(classified) /\ Unwrap(classified).fault = "none") =>
        LET c == Unwrap(classified)
            obj == fs[c.node]
            anyExecute == \E bit \in {1, 8, 64} : (obj.mode \div bit) % 2 = 1
        IN  /\ c.outcome.tag = "Ok"
            /\ c.outcome.val \in FileTypes
            /\ obj.kind = "dir" => c.outcome.val = "Directory"
            /\ (obj.kind # "dir" /\ anyExecute) => c.outcome.val = "Executable"

(***************************************************************************)
(* C7: whenever an extension list is supplied the mode is Extension, and   *)
(* whenever a regex and no extension list is supplied the mode is Regex,   *)
(* whether a target name, a kind, both or neither is also supplied.  The   *)
(* code lets a target name alone, or a kind alone, win over both.          *)
(***************************************************************************)
Deduced == search_mode # None \/ result # None

ExtensionRegexPrecedence ==
    Deduced =>
        /\ IsSome(cli.extensions) => search_mode = Some("Extension")
        /\ (IsSome(cli.regex) /\ ~IsSome(cli.extensions)) => search_mode = Some("Regex")

(***************************************************************************)
(* What deduce_search_mode does instead: a target name alone selects       *)
(* Target and a kind alone selects Type, whatever extension list or regex  *)
(* is also supplied; an extension list, or else a regex, decides the mode  *)
(* only when target name and kind are both supplied or both absent.        *)
(***************************************************************************)
ModePrecedence ==
    Deduced =>
        LET both == IsSome(cli.target) /\ IsSome(cli.file_type)
            neither == ~IsSome(cli.target) /\ ~IsSome(cli.file_type)
        IN  /\ (IsSome(cli.target) /\ ~IsSome(cli.file_type))
                   => search_mode = Some("Target")
            /\ (~IsSome(cli.target) /\ IsSome(cli.file_type))
                   => search_mode = Some("Type")
            /\ ((both \/ neither) /\ IsSome(cli.extensions))
                   => search_mode = Some("Extension")
            /\ ((both \/ neither) /\ ~IsSome(cli.extensions) /\ IsSome(cli.regex))
                   => search_mode = Some("Regex")

\* name, kind, extension list and regex all supplied: the walk ran by extension
ModePrecedenceWitness ==
    /\ result = Some("Ok")
    /\ search_mode = Some("Extension")
    /\ IsSome(cli.target) /\ IsSome(cli.file_type) /\ IsSome(cli.regex)
    /\ stdout # <<>>

(***************************************************************************)
(* C8: when both an extension list and a regex are supplied, main ends     *)
(* with a configuration error before the walk: nothing is listed, visited  *)
(* or printed.  The code picks a mode and walks.                           *)
(***************************************************************************)
AmbiguousRejected ==
    (IsSome(cli.extensions) /\ IsSome(cli.regex)) =>
        /\ search_mode = None
        /\ stack = <<>>
        /\ enumerated = <<>>
        /\ visited = <<>>
        /\ stdout = <<>>
        /\ result \in {None, Some("ConfigError")}

(***************************************************************************)
(* C9 as claimed: in Extension mode an entry is printed iff the part of    *)
(* its name after the last "." is not empty and is a member of the list.   *)
(***************************************************************************)
TimesPrinted(path) == Cardinality({i \in DOMAIN stdout : stdout[i] = path})

\* k is the place of the last "." of name
LastDotAt(name, k) ==
    /\ k \in 1 .. Len(name)
    /\ name[k] = "."
    /\ \A j \in (k + 1) .. Len(name) : name[j] # "."

InList(x, list) == \E i \in DOMAIN list : list[i] = x

ExtensionMatchAsClaimed ==
    search_mode = Some("Extension") =>
        \A i \in DOMAIN visited :
            LET e == visited[i].entry
            IN  (TimesPrinted(e.path) > 0) <=>
                    \E k \in 1 .. (Len(e.name) - 1) :
                        /\ LastDotAt(e.name, k)
                        /\ InList(SubSeq(e.name, k + 1, Len(e.name)),
                                  Unwrap(cli.extensions))

(***************************************************************************)
(* C9 amended: the extension is the part of the name after its last ".",   *)
(* possibly empty; a name has none when it holds no "." or when its last   *)
(* "." is its first character; an entry is printed iff it has an extension *)
(* that is a member of the list.                                           *)
(***************************************************************************)
ExtensionMatch ==
    search_mode = Some("Extension") =>
        \A i \in DOMAIN visited :
            LET e == visited[i].entry
            IN  (TimesPrinted(e.path) > 0) <=>
                    \E k \in 2 .. Len(e.name) :
                        /\ LastDotAt(e.name, k)
                        /\ InList(SubSeq(e.name, k + 1, Len(e.name)),
                                  Unwrap(cli.extensions))

\* a name with two dots matched on what follows the second, and the walk
\* also met a name without extension
ExtensionMatchWitness ==
    /\ search_mode = Some("Extension")
    /\ result = Some("Ok")
    /\ \E i \in DOMAIN visited :
          LET e == visited[i].entry
          IN  /\ \E k \in 3 .. (Len(e.name) - 1) :
                    /\ LastDotAt(e.name, k)
                    /\ \E j \in 2 .. (k - 1) : e.name[j] = "."
              /\ TimesPrinted(e.path) > 0
    /\ \E i \in DOMAIN visited :
          LastIndexOf(visited[i].entry.name, ".") = 0

=============================================================================
